---- MODULE Spec2Model ----
(***************************************************************************)
(* Model of scripts/auto-calibration.ino: ESP32 + ADS1115 + SCT-013 RMS    *)
(* monitor with an interactive calibration over the serial console and a   *)
(* calibration factor kept in NVS (Preferences).                           *)
(*                                                                         *)
(* Numbers.  A float is modelled as an exact rational [n, d] in lowest     *)
(* terms, d > 0; d = 0 holds the non-finite values: <<1,0>> = +inf,        *)
(* <<-1,0>> = -inf, <<0,0>> = NaN.  Rounding of the 24-bit mantissa is not *)
(* modelled.  Voltages are in volts, currents in amperes.                  *)
(* The 32-bit millisecond counter is a pair <<hi, lo>> of 16-bit halves,   *)
(* so that its arithmetic is modulo 2^32.                                  *)
(***************************************************************************)
EXTENDS Integers, Sequences, FiniteSets, TLC

(***************************************************************************)
(* Bounds of the model.                                                    *)
(***************************************************************************)
\* capacity of the serial receive queue that the model explores
MaxRx == 1
\* longest reference-current text the model lets the operator type
MaxLine == 2
\* number of ADC readings that stand for one measurement window
NSamples == 2
\* the clock of a session is explored up to this many milliseconds
MaxClock == 4000

(***************************************************************************)
(* Program constants.                                                      *)
(***************************************************************************)
\* const float ADS_LSB = 2.048f / 32768.0f  =  1 / 16000 volt per count
ADS_LSB_DEN == 16000
SAMPLES == 1600
SAMPLE_DELAY_US == 1150
\* if (millis() - t0 >= 2000)
PERIOD_MS == 2000
\* delay(300) in setup()
BOOT_DELAY_MS == 300
\* half of the 32-bit counter: 2^16
HALF == 65536

(***************************************************************************)
(* Float arithmetic on exact rationals.                                    *)
(***************************************************************************)
Abs(x) == IF x < 0 THEN -x ELSE x

Sgn(x) == IF x > 0 THEN 1 ELSE IF x < 0 THEN -1 ELSE 0

RECURSIVE Gcd(_, _)
Gcd(a, b) == IF b = 0 THEN a ELSE Gcd(b, a % b)

Norm(n, d) ==
    IF d = 0 THEN [n |-> Sgn(n), d |-> 0]
    ELSE LET g == Gcd(Abs(n), Abs(d))
         IN  [n |-> (Sgn(d) * n) \div g, d |-> Abs(d) \div g]

Num(k) == [n |-> k, d |-> 1]

IsNaN(a) == a.d = 0 /\ a.n = 0

IsInf(a) == a.d = 0 /\ a.n # 0

\* a * b ; inf * 0 = NaN
Mul(a, b) == Norm(a.n * b.n, a.d * b.d)

\* variant: a division by zero is guarded and gives 0
Div_Guarded(a, b) ==
    IF b.n = 0 THEN [n |-> 0, d |-> 1]
    ELSE Norm(a.n * b.d * (IF b.n < 0 THEN -1 ELSE 1), a.d * Abs(b.n))

\* a / b ; x / 0 = +-inf for x # 0, 0 / 0 = NaN, inf / inf = NaN
Div(a, b) == Norm(a.n * b.d * (IF b.n < 0 THEN -1 ELSE 1), a.d * Abs(b.n))

\* a < b ; false when either is NaN
Less(a, b) == ~IsNaN(a) /\ ~IsNaN(b) /\ a.n * b.d < b.n * a.d

\* variant: the test written as iknown < 0.0f
LeqZero_Strict(a) == ~IsNaN(a) /\ a.n < 0

\* a <= 0.0f ; false for NaN
LeqZero(a) == ~IsNaN(a) /\ a.n <= 0

\* float calibrationFactor = 5.0f
DefaultFactor == Num(5)

\* const float IGNORE_THRESHOLD_A = 0.001f
IGNORE_THRESHOLD_A == [n |-> 1, d |-> 1000]

(***************************************************************************)
(* uint32_t arithmetic (millis(), t0).                                     *)
(***************************************************************************)
U32(k) == <<k \div HALF, k % HALF>>

\* (a + k) mod 2^32 for 0 <= k < 2^16
Add32(a, k) ==
    LET lo == a[2] + k
    IN  <<(a[1] + lo \div HALF) % HALF, lo % HALF>>

\* (a - b) mod 2^32
Sub32(a, b) ==
    LET lo == a[2] - b[2]
        borrow == IF lo < 0 THEN 1 ELSE 0
    IN  <<(a[1] - b[1] - borrow + HALF) % HALF, (lo + HALF) % HALF>>

\* a >= k for 0 <= k < 2^16
Geq32(a, k) == a[1] > 0 \/ a[2] >= k

\* the counter read as a distance from the point where it wraps to 0:
\* negative in the 2^31 ms before the wrap
Signed(a) ==
    IF a[1] >= HALF \div 2 THEN (a[1] - HALF) * HALF + a[2]
    ELSE a[1] * HALF + a[2]

(***************************************************************************)
(* Serial.print(float, digits): the text of a float.                       *)
(* The text is [sp, neg, int, frac, digits]: sp is "num" for a number      *)
(* int.frac with `digits' decimals, or "nan" / "inf".                      *)
(***************************************************************************)
RECURSIVE Pow10(_)
Pow10(k) == IF k = 0 THEN 1 ELSE 10 * Pow10(k - 1)

\* long division: <<digits so far, remainder>> after k more decimals of r / d
RECURSIVE Decimals(_, _, _, _)
Decimals(acc, r, d, k) ==
    IF k = 0 THEN <<acc, r>>
    ELSE Decimals(acc * 10 + (r * 10) \div d, (r * 10) % d, d, k - 1)

Text(sp, neg, int, frac, digits) ==
    [sp |-> sp, neg |-> neg, int |-> int, frac |-> frac, digits |-> digits]

NoText == Text("", FALSE, 0, 0, 0)

\* number += 0.5 / 10^digits, then the integer part and `digits' decimals
printFloat(a, digits) ==
    IF IsNaN(a) THEN Text("nan", FALSE, 0, 0, digits)
    ELSE IF IsInf(a) THEN Text("inf", FALSE, 0, 0, digits)
    ELSE LET m    == Abs(a.n)
             ip   == m \div a.d
             fr   == Decimals(0, m % a.d, a.d, digits)
             up   == 2 * fr[2] >= a.d
             f    == fr[1] + (IF up THEN 1 ELSE 0)
             cry  == f = Pow10(digits)
         IN  Text("num", a.n < 0,
                  ip + (IF cry THEN 1 ELSE 0), IF cry THEN 0 ELSE f, digits)

\* one line of console output: what is reported and the value printed in it
Line(k, v) == [k |-> k, v |-> v]

Say(k) == Line(k, NoText)

Kinds(o) == {o[i].k : i \in 1..Len(o)}

(***************************************************************************)
(* String::toFloat(): the longest leading [-]digits of the text; 0.0 when  *)
(* the text does not start with a number.                                  *)
(***************************************************************************)
Digits == {"0", "1", "2", "3", "4", "5", "6", "7", "8", "9"}

DigitVal(c) == CHOOSE k \in 0..9 : ToString(k) = c

RECURSIVE ParseDigits(_, _)
ParseDigits(t, acc) ==
    IF t = <<>> \/ Head(t) \notin Digits THEN acc
    ELSE ParseDigits(Tail(t), acc * 10 + DigitVal(Head(t)))

toFloat(t) ==
    IF t # <<>> /\ Head(t) = "-" THEN Num(-ParseDigits(Tail(t), 0))
    ELSE Num(ParseDigits(t, 0))

(***************************************************************************)
(* Sampler: measure_vrms(samples).                                         *)
(* The readings of one window are adc[1..samples], raw counts of           *)
(* readADC_Differential_0_1().  v = raw * ADS_LSB, so the sum of v*v is    *)
(* the sum of raw*raw times ADS_LSB^2; the root is taken of the mean of    *)
(* raw*raw and scaled by ADS_LSB afterwards.                               *)
(***************************************************************************)
RECURSIVE SumSq(_, _)
SumSq(adc, i) == IF i = 0 THEN 0 ELSE SumSq(adc, i - 1) + adc[i] * adc[i]

\* floor of the square root of k, between lo and hi
RECURSIVE Isqrt(_, _, _)
Isqrt(k, lo, hi) ==
    IF lo >= hi THEN lo
    ELSE LET mid == (lo + hi + 1) \div 2
         IN  IF mid * mid <= k THEN Isqrt(k, mid, hi) ELSE Isqrt(k, lo, mid - 1)

Sqrt(k) == Isqrt(k, 0, 32768)

IsSquare(k) == Sqrt(k) * Sqrt(k) = k

measure_vrms(samples, adc) ==
    LET meanSq == Norm(SumSq(adc, samples), samples)
    IN  Norm(Sqrt(meanSq.n), Sqrt(meanSq.d) * ADS_LSB_DEN)

\* raw levels the sensor input takes in the model (int16_t counts)
RawLevels == {0, -3200}

\* the windows whose RMS is a rational number
Signals ==
    {w \in [1..NSamples -> RawLevels] :
        LET meanSq == Norm(SumSq(w, NSamples), NSamples)
        IN  IsSquare(meanSq.n) /\ IsSquare(meanSq.d)}

\* float measure_irms(): vrms * calibrationFactor
measure_irms(factor, adc) == Mul(measure_vrms(NSamples, adc), factor)

\* time one measure_vrms(SAMPLES) blocks: SAMPLES * SAMPLE_DELAY_US
MeasureMs == (SAMPLES * SAMPLE_DELAY_US) \div 1000

(***************************************************************************)
(* State.                                                                  *)
(***************************************************************************)
\* The bytes of the model: the four commands, an upper-case letter ("X"), the
\* two accepting answers, a digit, a sign, '\n' ("LF") and '\r' ("CR").
\* What the operator types while the program is at `at': at a prompt, an
\* answer to it or a byte that is none ("x").
Typed(at) ==
    CASE at = "idle"      -> {"c", "r", "d", "x", "X"}
      [] at = "cal_enter" -> {"LF", "CR", "x", "r", "c"}
      [] at = "cal_busy"  -> {"LF", "2"}
      [] at = "cal_line"  -> {"2", "-", "x", "LF", "CR"}
      [] at = "cal_save"  -> {"y", "Y", "x", "LF"}
      [] OTHER            -> {"c"}

VARIABLES
    pc,                 \* where the single thread of control is
    calibrationFactor,  \* the live factor (RAM)
    prefsOpen,          \* prefs.begin() has been called
    nvs,                \* the NVS record sct_conf/sct_factor
    rx,                 \* bytes received on Serial and not yet read
    s,                  \* interactiveCalibration: String s
    vrms,               \* interactiveCalibration: float vrms
    newFactor,          \* interactiveCalibration: float newFactor
    now,                \* millis()
    t0,                 \* loop(): static uint32_t t0
    t0init,             \* loop(): t0 has been initialised
    adc,                \* the windows the ADC delivered during the last step
    out,                \* the lines printed during the last step
    rd,                 \* the bytes Serial.read() returned during the last step
    hist                \* what has happened so far (observer, not program state)

vars == <<pc, calibrationFactor, prefsOpen, nvs, rx, s, vrms, newFactor,
          now, t0, t0init, adc, out, rd, hist>>

Absent == [present |-> FALSE, val |-> Num(0)]

Stored(v) == [present |-> TRUE, val |-> v]

\* factors an earlier session may have left in NVS
EarlierFactors == {Num(25)}

\* hist.declined: a calibration was completed unsaved in this session
\* hist.erased:   'x' was executed in this session
\* hist.pending:  'x' was executed and nothing has been saved since
\* hist.began:    millis() when the running calibration was started
NoHist == [declined |-> FALSE, erased |-> FALSE, pending |-> FALSE,
           began |-> U32(0)]

\* variant: calibrationFactor lies in memory that a reset does not initialise
PowerOn_KeepsFactor(h) ==
    /\ pc' = "boot"
    /\ calibrationFactor' = calibrationFactor
    /\ prefsOpen' = FALSE
    /\ rx' = <<>>
    /\ s' = <<>>
    /\ vrms' = Num(0)
    /\ newFactor' = Num(0)
    /\ now' = U32(0)
    /\ t0' = U32(0)
    /\ t0init' = FALSE
    /\ adc' = <<>>
    /\ out' = <<>>
    /\ rd' = <<>>
    /\ hist' = h

\* power-on: globals at their initialisers, UART not started
PowerOn(h) ==
    /\ pc' = "boot"
    /\ calibrationFactor' = DefaultFactor
    /\ prefsOpen' = FALSE
    /\ rx' = <<>>
    /\ s' = <<>>
    /\ vrms' = Num(0)
    /\ newFactor' = Num(0)
    /\ now' = U32(0)
    /\ t0' = U32(0)
    /\ t0init' = FALSE
    /\ adc' = <<>>
    /\ out' = <<>>
    /\ rd' = <<>>
    /\ hist' = h

Init ==
    /\ pc = "boot"
    /\ calibrationFactor = DefaultFactor
    /\ prefsOpen = FALSE
    /\ nvs \in {Absent} \cup {Stored(f) : f \in EarlierFactors}
    /\ rx = <<>>
    /\ s = <<>>
    /\ vrms = Num(0)
    /\ newFactor = Num(0)
    /\ now = U32(0)
    /\ t0 = U32(0)
    /\ t0init = FALSE
    /\ adc = <<>>
    /\ out = <<>>
    /\ rd = <<>>
    /\ hist = NoHist

(***************************************************************************)
(* Environment.                                                            *)
(***************************************************************************)
\* the device is reset or power-cycled; NVS survives
Reset ==
    /\ pc # "boot"
    /\ PowerOn([NoHist EXCEPT !.pending = hist.pending])
    /\ UNCHANGED nvs

\* the part of a session that the model explores
InClock == Signed(now) <= MaxClock

\* a byte arrives on the UART
Receive ==
    /\ pc # "boot"
    /\ InClock
    /\ Len(rx) < MaxRx
    /\ \E b \in Typed(pc) : rx' = Append(rx, b)
    /\ adc' = <<>>
    /\ out' = <<>>
    /\ rd' = <<>>
    /\ UNCHANGED <<pc, calibrationFactor, prefsOpen, nvs, s, vrms, newFactor,
                   now, t0, t0init, hist>>

\* time passes while the program polls or waits, one measurement window long
Tick ==
    /\ pc # "boot"
    /\ InClock
    /\ now' = Add32(now, MeasureMs)
    /\ adc' = <<>>
    /\ out' = <<>>
    /\ rd' = <<>>
    /\ UNCHANGED <<pc, calibrationFactor, prefsOpen, nvs, rx, s, vrms, newFactor,
                   t0, t0init, hist>>

(***************************************************************************)
(* setup()                                                                 *)
(***************************************************************************)
Banner == <<Say("banner")>>

Help == <<Say("help")>>

\* variant: prefs.getFloat(PREF_KEY, 0.0f) without the isKey() test
Loaded_ZeroDefault(st, f) == IF st.present THEN st.val ELSE Num(0)

\* variant: the stored factor is never loaded
Loaded_Never(st, f) == f

\* if (prefs.isKey(PREF_KEY)) calibrationFactor = prefs.getFloat(PREF_KEY, ...)
Loaded(st, f) == IF st.present THEN st.val ELSE f

\* ads.begin() answers ok; then the saved factor is loaded if the key exists
\* variant: the record is opened and loaded before the converter is probed
Setup_LoadsFirst ==
    /\ pc = "boot"
    /\ now' = Add32(now, BOOT_DELAY_MS)
    /\ prefsOpen' = TRUE
    /\ calibrationFactor' = Loaded(nvs, calibrationFactor)
    /\ \E ok \in BOOLEAN :
        IF ~ok
        THEN /\ pc' = "halted"
             /\ out' = Banner \o <<Say("no_ads")>>
        ELSE /\ pc' = "idle"
             /\ out' = Banner
                       \o <<Line(IF nvs.present THEN "loaded" ELSE "no_saved",
                                 printFloat(calibrationFactor', 6))>>
                       \o Help
    /\ rd' = <<>>
    /\ UNCHANGED <<nvs, rx, s, vrms, newFactor, t0, t0init, adc, hist>>

Setup ==
    /\ pc = "boot"
    /\ now' = Add32(now, BOOT_DELAY_MS)
    /\ \E ok \in BOOLEAN :
        IF ~ok
        THEN /\ pc' = "halted"
             /\ out' = Banner \o <<Say("no_ads")>>
             /\ UNCHANGED <<calibrationFactor, prefsOpen>>
        ELSE /\ pc' = "idle"
             /\ prefsOpen' = TRUE
             /\ calibrationFactor' =
                    Loaded(nvs, calibrationFactor)
             /\ out' = Banner
                       \o <<Line(IF nvs.present THEN "loaded" ELSE "no_saved",
                                 printFloat(calibrationFactor', 6))>>
                       \o Help
    /\ rd' = <<>>
    /\ UNCHANGED <<nvs, rx, s, vrms, newFactor, t0, t0init, adc, hist>>

(***************************************************************************)
(* loop(): the periodic measurement that ends every iteration.             *)
(* o, a: the lines printed and the windows sampled earlier in the          *)
(* iteration; t: millis() on entry; f: calibrationFactor on entry.         *)
(***************************************************************************)
\* variant: the periodic report is never suppressed
Periodic_Unfiltered(i) == <<Line("irms", printFloat(i, 4))>>

\* the lines of one periodic report: "below noise threshold" or "I_rms:"
Periodic(i) ==
    IF Less(i, IGNORE_THRESHOLD_A)
    THEN <<Line("noise", printFloat(IGNORE_THRESHOLD_A, 3))>>
    ELSE <<Line("irms", printFloat(i, 4))>>

\* variant: written as millis() >= t0 + 2000, the sum wrapping at 2^32
Due_SumCompared(t, start) ==
    LET e == Add32(start, PERIOD_MS)
    IN  t[1] > e[1] \/ (t[1] = e[1] /\ t[2] >= e[2])

\* millis() - t0 >= 2000
Due(t, start) == Geq32(Sub32(t, start), PERIOD_MS)

\* variant: the timer is restarted before the measurement, not after it
LoopTail_StampsBefore(o, a, t, f) ==
    LET start == IF t0init THEN t0 ELSE t
    IN  /\ t0init' = TRUE
        /\ IF Due(t, start)
           THEN /\ \E w \in Signals :
                     /\ adc' = Append(a, w)
                     /\ out' = o \o Periodic(measure_irms(f, w))
                /\ now' = Add32(t, MeasureMs)
                /\ t0' = t
           ELSE /\ adc' = a
                /\ out' = o
                /\ now' = t
                /\ t0' = start

LoopTail(o, a, t, f) ==
    LET start == IF t0init THEN t0 ELSE t
    IN  /\ t0init' = TRUE
        /\ IF Due(t, start)
           THEN /\ \E w \in Signals :
                     /\ adc' = Append(a, w)
                     /\ out' = o \o Periodic(measure_irms(f, w))
                /\ now' = Add32(t, MeasureMs)
                /\ t0' = now'
           ELSE /\ adc' = a
                /\ out' = o
                /\ now' = t
                /\ t0' = start

(***************************************************************************)
(* loop(): one iteration in IDLE.                                          *)
(***************************************************************************)
\* variant: the forced measurement is filtered like the periodic one
Forced_Filtered ==
    /\ UNCHANGED <<pc, calibrationFactor, nvs, hist>>
    /\ \E w \in Signals :
         LoopTail(IF Less(measure_irms(calibrationFactor, w),
                          IGNORE_THRESHOLD_A)
                  THEN <<Line("noise", printFloat(IGNORE_THRESHOLD_A, 3))>>
                  ELSE <<Line("forced",
                              printFloat(measure_irms(calibrationFactor, w),
                                         6))>>,
                  <<w>>, Add32(now, MeasureMs), calibrationFactor)

\* cmd == 'r'
Forced ==
    /\ UNCHANGED <<pc, calibrationFactor, nvs, hist>>
    /\ \E w \in Signals :
         LoopTail(<<Line("forced",
                         printFloat(measure_irms(calibrationFactor, w), 6))>>,
                  <<w>>, Add32(now, MeasureMs), calibrationFactor)

\* cmd == 'd'
Display ==
    /\ UNCHANGED <<pc, calibrationFactor, nvs, hist>>
    /\ LoopTail(<<Line("factor", printFloat(calibrationFactor, 6))>>,
                <<>>, now, calibrationFactor)

\* variant: 'x' also puts the live factor back to 5.0
Erase_ResetsLive ==
    /\ nvs' = Absent
    /\ hist' = [hist EXCEPT !.erased = TRUE, !.pending = TRUE]
    /\ calibrationFactor' = DefaultFactor
    /\ UNCHANGED pc
    /\ LoopTail(<<Say("erased")>>, <<>>, now, DefaultFactor)

\* cmd == 'x'
Erase ==
    /\ nvs' = Absent
    /\ hist' = [hist EXCEPT !.erased = TRUE, !.pending = TRUE]
    /\ UNCHANGED <<pc, calibrationFactor>>
    /\ LoopTail(<<Say("erased")>>, <<>>, now, calibrationFactor)

\* cmd == 'c': interactiveCalibration() prints its prompt and waits for a byte
StartCalibration ==
    /\ pc' = "cal_enter"
    /\ adc' = <<>>
    /\ out' = <<Say("cal_banner"), Say("press_enter")>>
    /\ hist' = [hist EXCEPT !.began = now]
    /\ UNCHANGED <<calibrationFactor, nvs, now, t0, t0init>>

\* any other byte, or no byte at all
NoCommand ==
    /\ UNCHANGED <<pc, calibrationFactor, nvs, hist>>
    /\ LoopTail(<<>>, <<>>, now, calibrationFactor)

\* variant: the command letter is compared without regard to case
Cmd_IgnoreCase(b) == IF b = "X" THEN "x" ELSE b

\* char cmd = Serial.read(): the byte as it is compared with 'c', 'r', 'd', 'x'
Cmd(b) == b

LoopIter ==
    /\ pc = "idle"
    /\ InClock
    /\ IF rx # <<>>
       THEN /\ rx' = Tail(rx)
            /\ rd' = <<Head(rx)>>
            /\ CASE Cmd(Head(rx)) = "c" -> StartCalibration
                 [] Cmd(Head(rx)) = "r" -> Forced
                 [] Cmd(Head(rx)) = "d" -> Display
                 [] Cmd(Head(rx)) = "x" -> Erase
                 [] OTHER -> NoCommand
       ELSE /\ rx' = rx
            /\ rd' = <<>>
            /\ NoCommand
    /\ UNCHANGED <<prefsOpen, s, vrms, newFactor>>

(***************************************************************************)
(* interactiveCalibration()                                                *)
(***************************************************************************)
\* variant: the buffer is cleared and the wait for a byte starts over
CalDiscard_WaitsAgain ==
    /\ pc = "cal_enter"
    /\ InClock
    /\ rx # <<>>
    /\ rx' = <<>>
    /\ rd' = rx
    /\ adc' = <<>>
    /\ out' = <<>>
    /\ UNCHANGED <<pc, calibrationFactor, prefsOpen, nvs, s, vrms, newFactor,
                   now, t0, t0init, hist>>

\* a byte is available: clear the buffer, announce the measurement
CalDiscard ==
    /\ pc = "cal_enter"
    /\ InClock
    /\ rx # <<>>
    /\ rx' = <<>>
    /\ rd' = rx
    /\ adc' = <<>>
    /\ out' = <<Say("measuring")>>
    /\ pc' = "cal_busy"
    /\ UNCHANGED <<calibrationFactor, prefsOpen, nvs, s, vrms, newFactor,
                   now, t0, t0init, hist>>

\* variant: the buffer is cleared once more when the measurement is over
CalMeasure_FlushAfter ==
    /\ pc = "cal_busy"
    /\ InClock
    /\ rx' = <<>>
    /\ rd' = rx
    /\ \E w \in Signals :
         /\ adc' = <<w>>
         /\ vrms' = measure_vrms(NSamples, w)
    /\ now' = Add32(now, MeasureMs)
    /\ s' = <<>>
    /\ out' = <<Line("vrms_mV", printFloat(Mul(vrms', Num(1000)), 4)),
                Say("ask_current")>>
    /\ pc' = "cal_line"
    /\ UNCHANGED <<calibrationFactor, prefsOpen, nvs, newFactor, t0, t0init,
                   hist>>

\* measure_vrms(SAMPLES) blocks; then report it and ask for the known current
CalMeasure ==
    /\ pc = "cal_busy"
    /\ InClock
    /\ rx' = rx
    /\ rd' = <<>>
    /\ \E w \in Signals :
         /\ adc' = <<w>>
         /\ vrms' = measure_vrms(NSamples, w)
    /\ now' = Add32(now, MeasureMs)
    /\ s' = <<>>
    /\ out' = <<Line("vrms_mV", printFloat(Mul(vrms', Num(1000)), 4)),
                Say("ask_current")>>
    /\ pc' = "cal_line"
    /\ UNCHANGED <<calibrationFactor, prefsOpen, nvs, newFactor, t0, t0init,
                   hist>>

\* interactiveCalibration() returns: its locals are gone
Return ==
    /\ pc' = "idle"
    /\ s' = <<>>
    /\ vrms' = Num(0)
    /\ newFactor' = Num(0)

\* '\n' ends the line: s.toFloat(), then "Invalid value." or the save prompt
EndOfLine ==
    LET iknown == toFloat(s)
    IN  IF LeqZero(iknown)
        THEN /\ Return
             /\ hist' = [hist EXCEPT !.began = U32(0)]
             /\ LoopTail(<<Say("invalid")>>, <<>>, now, calibrationFactor)
        ELSE /\ pc' = "cal_save"
             /\ hist' = hist
             /\ newFactor' = Div(iknown, vrms)
             /\ adc' = <<>>
             /\ out' = <<Line("new_factor", printFloat(newFactor', 6)),
                         Say("save_prompt")>>
             /\ UNCHANGED <<s, vrms, now, t0, t0init>>

\* one byte of the reference-current line is read
CalReadChar ==
    /\ pc = "cal_line"
    /\ InClock
    /\ rx # <<>>
    /\ rx' = Tail(rx)
    /\ rd' = <<Head(rx)>>
    /\ CASE Head(rx) = "CR" ->
                /\ adc' = <<>>
                /\ out' = <<>>
                /\ UNCHANGED <<pc, s, vrms, newFactor, now, t0, t0init, hist>>
         [] Head(rx) = "LF" -> EndOfLine
         [] OTHER ->
                /\ Len(s) < MaxLine
                /\ s' = Append(s, Head(rx))
                /\ adc' = <<>>
                /\ out' = <<>>
                /\ UNCHANGED <<pc, vrms, newFactor, now, t0, t0init, hist>>
    /\ UNCHANGED <<calibrationFactor, prefsOpen, nvs>>

\* variant: only the lower-case 'y' accepts
Confirms_LowerOnly(r) == r = "y"

\* r == 'y' || r == 'Y'
Confirms(r) == r = "y" \/ r = "Y"

\* variant: a declined run leaves the live factor alone
AnswerEffect_DeclineKeepsLive(r, nf, f, st) ==
    IF r = "y" \/ r = "Y"
    THEN [live |-> nf, nvs |-> Stored(nf), line |-> "saved"]
    ELSE [live |-> f, nvs |-> st, line |-> "unsaved"]

\* variant: the factor is written to NVS whatever the answer
AnswerEffect_DeclineStores(r, nf, f, st) ==
    IF r = "y" \/ r = "Y"
    THEN [live |-> nf, nvs |-> Stored(nf), line |-> "saved"]
    ELSE [live |-> nf, nvs |-> Stored(nf), line |-> "unsaved"]

\* variant: putFloat() runs before calibrationFactor is assigned
AnswerEffect_StoresOld(r, nf, f, st) ==
    IF r = "y" \/ r = "Y"
    THEN [live |-> nf, nvs |-> Stored(f), line |-> "saved"]
    ELSE [live |-> nf, nvs |-> st, line |-> "unsaved"]

\* what the answer r does with the new factor nf, given the live factor f and
\* the stored record st: the live factor, the record and the line printed
\* variant: 'x' at the save prompt is taken as the erase command
AnswerEffect_XErases(r, nf, f, st) ==
    IF r \in {"y", "Y"}
    THEN [live |-> nf, nvs |-> Stored(nf), line |-> "saved"]
    ELSE IF r = "x"
    THEN [live |-> f, nvs |-> Absent, line |-> "erased"]
    ELSE [live |-> nf, nvs |-> st, line |-> "unsaved"]

AnswerEffect(r, nf, f, st) ==
    IF Confirms(r)
    THEN [live |-> nf, nvs |-> Stored(nf), line |-> "saved"]
    ELSE [live |-> nf, nvs |-> st, line |-> "unsaved"]

\* variant: what follows the answer in the queue is thrown away
CalSave_Flushes ==
    /\ pc = "cal_save"
    /\ InClock
    /\ rx # <<>>
    /\ rx' = <<>>
    /\ rd' = <<Head(rx)>>
    /\ LET e == AnswerEffect(Head(rx), newFactor, calibrationFactor, nvs)
       IN  /\ calibrationFactor' = e.live
           /\ nvs' = e.nvs
           /\ hist' = IF e.line = "saved"
                      THEN [hist EXCEPT !.pending = FALSE, !.began = U32(0)]
                      ELSE [hist EXCEPT !.declined = TRUE, !.began = U32(0)]
           /\ LoopTail(<<Say(e.line), Say("finished")>>, <<>>, now, e.live)
    /\ Return
    /\ UNCHANGED prefsOpen

\* the answer to "Save ? (y/n)" is read
CalSave ==
    /\ pc = "cal_save"
    /\ InClock
    /\ rx # <<>>
    /\ rx' = Tail(rx)
    /\ rd' = <<Head(rx)>>
    /\ LET e == AnswerEffect(Head(rx), newFactor, calibrationFactor, nvs)
       IN  /\ calibrationFactor' = e.live
           /\ nvs' = e.nvs
           /\ hist' = IF e.line = "saved"
                      THEN [hist EXCEPT !.pending = FALSE, !.began = U32(0)]
                      ELSE [hist EXCEPT !.declined = TRUE, !.began = U32(0)]
           /\ LoopTail(<<Say(e.line), Say("finished")>>, <<>>, now, e.live)
    /\ Return
    /\ UNCHANGED prefsOpen

Next ==
    \/ Setup
    \/ LoopIter
    \/ CalDiscard
    \/ CalMeasure
    \/ CalReadChar
    \/ CalSave
    \/ Receive
    \/ Tick
    \/ Reset

Spec == Init /\ [][Next]_vars

\* what the operator may send at once at the save prompt: the answer and
\* what is typed after it
Pasted == {<<"y", "LF">>, <<"y", "x", "d">>, <<"x", "r", "c">>}

\* several bytes arrive together while the save prompt waits
Paste ==
    /\ pc = "cal_save"
    /\ InClock
    /\ rx = <<>>
    /\ rx' \in Pasted
    /\ adc' = <<>>
    /\ out' = <<>>
    /\ rd' = <<>>
    /\ UNCHANGED <<pc, calibrationFactor, prefsOpen, nvs, s, vrms, newFactor,
                   now, t0, t0init, hist>>

NextBurst == Next \/ Paste

\* the program with an operator who also sends several bytes at once
SpecBurst == Init /\ [][NextBurst]_vars

\* ms left before millis() wraps to 0 when the run is taken up
BeforeWrap == 1000

\* ms since the previous periodic measurement at that moment: none, and
\* one measurement window short of 1999 and of 2000
SinceLast == {0, PERIOD_MS - MeasureMs - 1, PERIOD_MS - MeasureMs}

\* IDLE after 2^32 - BeforeWrap ms of running, nothing stored
InitWrap ==
    /\ pc = "idle"
    /\ calibrationFactor = DefaultFactor
    /\ prefsOpen = TRUE
    /\ nvs = Absent
    /\ rx = <<>>
    /\ s = <<>>
    /\ vrms = Num(0)
    /\ newFactor = Num(0)
    /\ now = Sub32(U32(0), U32(BeforeWrap))
    /\ \E d \in SinceLast : t0 = Sub32(now, U32(d))
    /\ t0init = TRUE
    /\ adc = <<>>
    /\ out = <<>>
    /\ rd = <<>>
    /\ hist = NoHist

\* the session goes on without a power cycle
NextWrap ==
    \/ LoopIter
    \/ CalDiscard
    \/ CalMeasure
    \/ CalReadChar
    \/ CalSave
    \/ Receive
    \/ Tick

\* the program while millis() wraps around
SpecWrap == InitWrap /\ [][NextWrap]_vars

\* the typed line is longer than the model follows: MaxLine characters are
\* in s and one more waits to be appended
LineFull ==
    /\ pc = "cal_line" /\ Len(s) = MaxLine
    /\ rx # <<>> /\ Head(rx) \notin {"LF", "CR"}

\* what a step of interactiveCalibration() does to pc and rx: its polling
\* waits end as soon as a byte is there (while (!Serial.available())
\* delay(10)), and the measurement ends by itself
Poll ==
    /\ InClock
    /\ \/ pc = "cal_enter" /\ rx # <<>> /\ pc' = "cal_busy" /\ rx' = <<>>
       \/ pc = "cal_busy" /\ pc' = "cal_line" /\ rx' = rx
       \/ pc = "cal_line" /\ rx # <<>> /\ ~LineFull
            /\ pc' \in {"cal_line", "cal_save", "idle"} /\ rx' = Tail(rx)
       \/ pc = "cal_save" /\ rx # <<>> /\ pc' = "idle" /\ rx' = Tail(rx)

\* the operator sends ENTER to a prompt of the calibration
Supply ==
    /\ InClock
    /\ pc \in {"cal_enter", "cal_line", "cal_save"}
    /\ Len(rx) < MaxRx
    /\ rx' = Append(rx, "LF")
    /\ pc' = pc

\* the program keeps running, and the operator eventually ends the line and
\* answers the other prompts
SpecLive ==
    /\ Init /\ [][Next]_vars
    /\ WF_<<pc, rx>>(Poll)
    /\ SF_<<pc, rx>>(Supply)

(***************************************************************************)
(* Properties.                                                             *)
(***************************************************************************)
\* startup has completed and the program runs loop()
Started == pc \notin {"boot", "halted"}

\* the last step completed startup
JustStarted == Kinds(out) \cap {"loaded", "no_saved"} # {}

PlusInf == [n |-> 1, d |-> 0]

\* f = i / v, stated without dividing: f * v = i, and i / 0 = +inf for i > 0
IsQuotient(f, i, v) ==
    IF v.n = 0 THEN f = PlusInf
    ELSE f.d > 0 /\ f.n * v.n * i.d = i.n * v.d * f.d

\* the step reads the answer to the save prompt
AnswerStep == pc = "cal_save" /\ rd' # <<>>

\* the step reads the '\n' that ends the reference-current line
EndOfLineStep == pc = "cal_line" /\ rd' = <<"LF">>

\* C1: a calibration run with Vrms = V and a reference current that parses to
\* I > 0 returns to IDLE with calibrationFactor = I / V, whether the save
\* prompt is answered 'y'/'Y' or with any other byte.
C1_FactorIsIOverV ==
    [][AnswerStep =>
         /\ LeqZero(toFloat(s)) = FALSE
         /\ pc' = "idle"
         /\ IsQuotient(calibrationFactor', toFloat(s), vrms)]_vars

\* a declined run with I = 22 A and V = 0.2 V has returned with factor 110
C1_Witness ==
    /\ pc = "idle"
    /\ rd = <<"x">>
    /\ "unsaved" \in Kinds(out)
    /\ calibrationFactor = Num(110)

\* C2: a declined calibration leaves the persistent record as it was and
\* changes the live calibrationFactor to the new factor.
C2_DeclineKeepsRecord ==
    [][(AnswerStep /\ rd'[1] \notin {"y", "Y"}) =>
         /\ nvs' = nvs
         /\ calibrationFactor' = newFactor
         /\ "saved" \notin Kinds(out')]_vars

\* declined with 25 stored: the record still holds 25, the live factor is 10
C2_Witness ==
    /\ pc = "idle"
    /\ "unsaved" \in Kinds(out)
    /\ nvs = Stored(Num(25))
    /\ calibrationFactor = Num(10)

\* C3: the new factor is written to sct_factor if and only if the answer byte
\* is 'y' or 'Y'; after a confirmed run the key is present and its value and
\* the live calibrationFactor both equal newFactor.
C3_SavedIffYes ==
    [][AnswerStep =>
         IF rd'[1] \in {"y", "Y"}
         THEN /\ nvs'.present
              /\ nvs'.val = newFactor
              /\ calibrationFactor' = newFactor
              /\ "saved" \in Kinds(out')
         ELSE /\ nvs' = nvs
              /\ "saved" \notin Kinds(out')]_vars

\* confirmed with 'Y': the key is present and equals the live factor 110
C3_Witness ==
    /\ pc = "idle"
    /\ rd = <<"Y">>
    /\ "saved" \in Kinds(out)
    /\ nvs = Stored(Num(110))
    /\ calibrationFactor = Num(110)

\* texts that do not parse to a positive number: "-2", "x", "-", ""
BadTexts == {<<"-", "2">>, <<"x">>, <<"-">>, <<>>, <<"x", "2">>}

\* C4: when the reference-current text parses to a value <= 0 (unparseable
\* text parses to 0), the calibration aborts to IDLE with calibrationFactor
\* and the persistent record unchanged and without the save prompt.
C4_InvalidAborts ==
    [][(EndOfLineStep /\ (LeqZero(toFloat(s)) \/ s \in BadTexts)) =>
         /\ pc' = "idle"
         /\ calibrationFactor' = calibrationFactor
         /\ nvs' = nvs
         /\ "invalid" \in Kinds(out')
         /\ Kinds(out') \cap {"save_prompt", "new_factor", "saved"} = {}]_vars

\* the run was aborted as invalid; the loaded factor and the record are kept
C4_Witness ==
    /\ pc = "idle"
    /\ rd = <<"LF">>
    /\ "invalid" \in Kinds(out)
    /\ calibrationFactor = Num(25)
    /\ nvs = Stored(Num(25))

\* the value behind a window, as the Sampler returns it
VrmsOf(w) == measure_vrms(NSamples, w)

\* line l reports what the factor f and the windows a give
ShownWith(l, a, f) ==
    CASE l.k = "factor" -> l.v = printFloat(f, 6)
      [] l.k = "forced" -> l.v = printFloat(Mul(VrmsOf(a[1]), f), 6)
      [] l.k = "irms"   -> l.v = printFloat(Mul(VrmsOf(a[Len(a)]), f), 4)
      [] l.k = "noise"  -> Less(Mul(VrmsOf(a[Len(a)]), f), IGNORE_THRESHOLD_A)
      [] OTHER -> TRUE

\* C5: 'x' removes the key sct_factor and leaves the live calibrationFactor
\* unchanged; the measurements and displays issued later in the session
\* ('r', 'd', periodic) use that unchanged factor.
C5_EraseKeepsLive ==
    [][/\ (pc = "idle" /\ rd' = <<"x">>) =>
             /\ ~nvs'.present
             /\ calibrationFactor' = calibrationFactor
             /\ "erased" \in Kinds(out')
       /\ (pc = "idle" /\ pc' = "idle" /\ hist'.erased) =>
             /\ calibrationFactor' = calibrationFactor
             /\ \A i \in 1..Len(out') :
                    ShownWith(out'[i], adc', calibrationFactor)]_vars

\* after the erase, 'd' still displays the factor 25 loaded at startup
C5_Witness ==
    /\ pc = "idle"
    /\ hist.erased
    /\ ~nvs.present
    /\ rd = <<"d">>
    /\ out = <<Line("factor", Text("num", FALSE, 25, 0, 6))>>

\* C6: after an 'x' erase, a restart with no confirmed calibration in between
\* sets calibrationFactor to the default 5.0, whatever was stored or live.
C6_RestartAfterErase ==
    (JustStarted /\ hist.pending) =>
        /\ calibrationFactor = Num(5)
        /\ "no_saved" \in Kinds(out)

\* restarted after an erase: the default is reported as the factor
C6_Witness ==
    /\ pc = "idle"
    /\ hist.pending
    /\ Len(out) = 3
    /\ out[2] = Line("no_saved", Text("num", FALSE, 5, 0, 6))
    /\ calibrationFactor = Num(5)

\* C7: startup sets calibrationFactor to the persisted value when the key is
\* present and to 5.0 otherwise; a declined calibration and a restart leave
\* the record alone, so the factor after the restart is the one persisted
\* before the declined calibration (or 5.0), not the declined one.
C7_StartupLoads ==
    [][/\ (pc = "boot" /\ pc' = "idle") =>
             calibrationFactor' = (IF nvs.present THEN nvs.val ELSE Num(5))
       /\ ((AnswerStep /\ rd'[1] \notin {"y", "Y"}) \/ pc' = "boot"
                \/ pc = "boot") =>
             nvs' = nvs]_vars

\* started with a factor that an earlier session saved by calibration
C7_Witness ==
    /\ pc = "idle"
    /\ Len(out) = 3
    /\ out[2] = Line("loaded", Text("num", FALSE, 10, 0, 6))
    /\ calibrationFactor = Num(10)
    /\ nvs = Stored(Num(10))

\* C8 as claimed: after startup, key absent implies calibrationFactor = 5.0
C8_AbsentMeansDefault ==
    (Started /\ ~nvs.present) => calibrationFactor = Num(5)

\* C8 (amended): after startup, if the key is absent and in the current
\* session no calibration was completed unsaved and no 'x' was executed,
\* calibrationFactor is the default 5.0.
C8_AbsentUntouchedMeansDefault ==
    (Started /\ ~nvs.present /\ ~hist.declined /\ ~hist.erased) =>
        calibrationFactor = Num(5)

\* key absent, an aborted calibration behind: the factor is still 5.0
C8_Witness ==
    /\ pc = "idle"
    /\ ~nvs.present
    /\ ~hist.declined
    /\ ~hist.erased
    /\ "invalid" \in Kinds(out)
    /\ calibrationFactor = Num(5)

\* C9: after startup, if the key is present and no calibration was completed
\* unsaved in the current session, calibrationFactor equals the stored value.
C9_PresentMeansStored ==
    (Started /\ nvs.present /\ ~hist.declined) => calibrationFactor = nvs.val

\* a confirmed calibration in a session without a declined one
C9_Witness ==
    /\ pc = "idle"
    /\ "saved" \in Kinds(out)
    /\ ~hist.declined
    /\ nvs = Stored(Num(10))
    /\ calibrationFactor = Num(10)

\* C10: in IDLE a byte other than 'c', 'r', 'd', 'x' is consumed and ignored:
\* it starts no calibration, no forced measurement, no display and no erase,
\* and leaves calibrationFactor and the record unchanged; the iteration
\* prints nothing but its own periodic report, when that is due.
C10_OtherByteIgnored ==
    [][(pc = "idle" /\ rd' # <<>> /\ rd'[1] \notin {"c", "r", "d", "x"}) =>
         /\ pc' = "idle"
         /\ rx' = Tail(rx)
         /\ calibrationFactor' = calibrationFactor
         /\ nvs' = nvs
         /\ Kinds(out') \subseteq {"noise", "irms"}
         /\ Len(out') = Len(adc')
         /\ Len(adc') <= 1
         /\ (now' = now) = (out' = <<>>)]_vars

\* an upper-case 'X' was read in IDLE and nothing was printed
C10_Witness ==
    /\ pc = "idle"
    /\ rd = <<"X">>
    /\ out = <<>>
    /\ adc = <<>>
    /\ nvs.present


\* v >= 0 is the root mean square, in volts, of the window w of raw counts
IsRms(v, w) ==
    /\ v.d > 0
    /\ v.n >= 0
    /\ v.n * v.n * NSamples * ADS_LSB_DEN * ADS_LSB_DEN
         = v.d * v.d * SumSq(w, NSamples)

\* the text x shows, with `digits' decimals, the product of the window's RMS
\* voltage and the factor f: nan, inf, or the decimal nearest to it
Reports(x, w, f, digits) ==
    \E v \in {VrmsOf(w)} :
        /\ IsRms(v, w)
        /\ x.digits = digits
        /\ IF f.d = 0
           THEN x.sp = (IF f.n = 0 \/ v.n = 0 THEN "nan" ELSE "inf")
           ELSE LET p == v.n * Abs(f.n)
                    q == v.d * f.d
                    shown == x.int * Pow10(digits) + x.frac
                IN  /\ x.sp = "num"
                    /\ x.frac < Pow10(digits)
                    /\ Abs(shown * q - p * Pow10(digits)) <= q \div 2

\* the step reads 'r' in IDLE
ForcedStep == pc = "idle" /\ rd' = <<"r">>

\* C11: a forced measurement 'r' reports measure_vrms(SAMPLES) times the live
\* calibrationFactor with 6 decimals, with no offset and no threshold
\* filtering, also below 0.001 A; with factor 5.0 and Vrms 0.2 V it reports
\* 1.000000; it changes neither calibrationFactor nor the record.
C11_ForcedReportsProduct ==
    [][ForcedStep =>
         /\ Len(out') >= 1 /\ Len(adc') >= 1
         /\ out'[1].k = "forced"
         /\ Reports(out'[1].v, adc'[1], calibrationFactor, 6)
         /\ (calibrationFactor = Num(5) /\ adc'[1] = [i \in 1..NSamples |-> -3200])
              => out'[1].v = Text("num", FALSE, 1, 0, 6)
         /\ calibrationFactor' = calibrationFactor
         /\ nvs' = nvs]_vars

\* 'r' with no current flowing has reported 0.000000, below the threshold
C11_Witness ==
    /\ pc = "idle"
    /\ rd = <<"r">>
    /\ Len(out) >= 1
    /\ out[1] = Line("forced", Text("num", FALSE, 0, 0, 6))
    /\ calibrationFactor = Num(5)

\* the step ends with a periodic measurement: one window more than the
\* forced measurement of the same step took
PeriodicStep ==
    /\ pc' = "idle"
    /\ Len(adc') = (IF "forced" \in Kinds(out') THEN 2 ELSE 1)

\* x < 0.001, compared as fractions
BelowThreshold(x) ==
    \/ x.d > 0 /\ x.n * 1000 < x.d
    \/ x.d = 0 /\ x.n < 0

\* x >= 0.001: false for NaN as for every comparison with NaN
AtOrAboveThreshold(x) ==
    \/ x.d > 0 /\ x.n * 1000 >= x.d
    \/ x.d = 0 /\ x.n > 0

\* C12: a periodic measurement below 0.001 A is reported as "below noise
\* threshold" and never as a number; one at or above 0.001 A is reported as
\* a number with 4 decimals.
C12_PeriodicFiltered ==
    [][PeriodicStep =>
         LET w    == adc'[Len(adc')]
             irms == Mul(VrmsOf(w), calibrationFactor')
             l    == out'[Len(out')]
         IN  /\ out' # <<>>
             /\ Kinds(out') \cap {"noise", "irms"} = {l.k}
             /\ BelowThreshold(irms) => l.k = "noise"
             /\ AtOrAboveThreshold(irms) =>
                    l.k = "irms" /\ Reports(l.v, w, calibrationFactor', 4)]_vars

\* a periodic measurement with no current flowing was reported as noise
C12_Witness ==
    /\ pc = "idle"
    /\ Len(adc) = 1
    /\ adc[1] = [i \in 1..NSamples |-> 0]
    /\ out = <<Line("noise", Text("num", FALSE, 0, 1, 3))>>
    /\ calibrationFactor = Num(110)


\* C13: when ads.begin() fails at startup the program halts for good: it
\* never reaches IDLE, reads no console byte, takes no measurement, never
\* opens or touches the persistent record, and calibrationFactor stays at
\* the compiled default 5.0. Only a power cycle leaves the halt.
C13_HaltIsFinal ==
    [][/\ pc' = "halted" =>
            /\ pc \in {"boot", "halted"}
            /\ ~prefsOpen'
            /\ calibrationFactor' = DefaultFactor
            /\ nvs' = nvs
            /\ rd' = <<>>
            /\ adc' = <<>>
            /\ rx' \in {rx} \cup {Append(rx, b) : b \in Typed("halted")}
            /\ (pc = "boot") = ("no_ads" \in Kinds(out'))
       /\ pc = "halted" =>
            /\ pc' \in {"halted", "boot"}
            /\ pc' = "halted" => out' = <<>>]_vars

\* halted with a stored factor never loaded and a command byte never read,
\* a measurement period after startup
C13_Witness ==
    /\ pc = "halted"
    /\ nvs = Stored(Num(25))
    /\ calibrationFactor = DefaultFactor
    /\ ~prefsOpen
    /\ rx = <<"c">>
    /\ Signed(now) >= BOOT_DELAY_MS + PERIOD_MS


\* a step of the environment: a byte arrives, or time passes with no sampling
EnvStep ==
    \/ Len(rx') > Len(rx)
    \/ now' # now /\ adc' = <<>>

\* the step runs the elapsed-time check that ends a polling iteration
TailStep ==
    /\ pc \in {"idle", "cal_line", "cal_save"}
    /\ pc' = "idle"
    /\ ~EnvStep

\* the step returns from interactiveCalibration()
ReturnStep == pc \in {"cal_line", "cal_save"} /\ pc' = "idle"

\* real time, in ms, at which the step evaluates millis() - t0 >= 2000
CheckTime == Signed(now) + (IF ForcedStep THEN MeasureMs ELSE 0)

\* real time from which the 2000 ms are counted: the completion of the
\* previous periodic measurement, or the first evaluation of the check
TimerRef == IF t0init THEN Signed(t0) ELSE CheckTime

\* the timer: a polling iteration takes a periodic measurement exactly when
\* 2000 ms have passed since TimerRef; t0 is set to the time the periodic
\* measurement completes and by nothing else, not by a forced measurement
TimerRule ==
    /\ TailStep =>
         /\ t0init'
         /\ PeriodicStep = (CheckTime - TimerRef >= PERIOD_MS)
         /\ IF PeriodicStep
            THEN Signed(now') = CheckTime + MeasureMs /\ t0' = now'
            ELSE Signed(now') = CheckTime /\ Signed(t0') = TimerRef
    /\ (~TailStep /\ pc' # "boot") => (t0' = t0 /\ t0init' = t0init)
    /\ (~TailStep /\ pc' = "idle") => adc' = <<>>

\* the calibration that the step returns from has lasted more than 2000 ms
LongSession == ReturnStep /\ Signed(now) - Signed(hist.began) > PERIOD_MS

\* C14 as stated: every calibration longer than 2000 ms is followed by a
\* periodic measurement in the iteration in which it returns.
C14_AutoOnEveryLongReturn ==
    [][TimerRule /\ (LongSession => PeriodicStep)]_vars

\* C14: a periodic measurement is taken in a polling iteration exactly when
\* at least 2000 ms have passed since the previous one completed or, before
\* the first one, since the first iteration evaluated the check; 'r' does
\* not restart the timer; a calibration longer than 2000 ms that was not
\* started in the first polling iteration is followed by the periodic
\* measurement in the iteration in which it returns.
C14_AutoWhenDue ==
    [][TimerRule /\ ((LongSession /\ t0init) => PeriodicStep)]_vars

\* a calibration of more than 2000 ms has returned and the same step took
\* the periodic measurement
C14_Witness ==
    /\ pc = "idle"
    /\ "finished" \in Kinds(out)
    /\ Kinds(out) \cap {"noise", "irms"} # {}
    /\ Len(adc) = 1
    /\ t0 = now
    /\ Signed(now) > BOOT_DELAY_MS + PERIOD_MS + MeasureMs


\* interactiveCalibration() is running
CalPcs == {"cal_enter", "cal_busy", "cal_line", "cal_save"}

\* C15: once a calibration has begun nothing cancels it: until it returns to
\* IDLE no byte is dispatched as an IDLE command and no periodic measurement
\* is taken; a byte 'x' does not erase the record, 'r' takes no forced
\* measurement and 'c' starts no nested calibration. Only a power cycle
\* ends the run early.
C15_NoCancellation ==
    [][(pc \in CalPcs) =>
         /\ pc' \in CalPcs \cup {"idle", "boot"}
         /\ Kinds(out') \cap {"forced", "factor", "erased",
                              "cal_banner", "press_enter"} = {}
         /\ nvs.present => nvs'.present
         /\ pc' = "cal_enter" => pc = "cal_enter"
         /\ (pc' = "idle" /\ rd' # <<>> /\ rd'[1] \notin {"y", "Y"}) => nvs' = nvs
         /\ pc' \in CalPcs =>
              (/\ calibrationFactor' = calibrationFactor
               /\ nvs' = nvs
               /\ hist'.began = hist.began
               /\ t0' = t0 /\ t0init' = t0init
               /\ Kinds(out') \cap {"noise", "irms"} = {}
               /\ adc' # <<>> => (pc = "cal_busy" /\ Len(adc') = 1))
      ]_vars

\* a byte 'x' was consumed by the running calibration and the record is
\* still there
C15_Witness ==
    /\ pc = "cal_busy"
    /\ rd = <<"x">>
    /\ nvs = Stored(Num(25))
    /\ calibrationFactor = Num(25)


\* the limits of the model are reached: the clock is past MaxClock, or the
\* line typed is longer than MaxLine
Horizon == ~InClock \/ LineFull

\* a step at a prompt with no byte available stays at the prompt
NoTimeout ==
    (pc \in {"cal_enter", "cal_line", "cal_save"} /\ rx = <<>>) =>
        \/ pc' = "boot"
        \/ /\ pc' = pc
           /\ EnvStep
           /\ out' = <<>>
           /\ UNCHANGED <<calibrationFactor, nvs, s, vrms, newFactor>>

\* C16: a calibration run returns to IDLE once the operator has supplied a
\* byte at the first prompt, a line ended by '\n' and, when the value parsed
\* is > 0, a byte at the save prompt; no prompt times out: with no byte
\* available the run stays at its prompt while time passes.
C16_RunReturns ==
    /\ (pc \in CalPcs) ~> (pc \in {"idle", "boot"} \/ Horizon)
    /\ [][NoTimeout]_vars

\* a run whose save prompt was answered with ENTER has returned
C16_Witness ==
    /\ pc = "idle"
    /\ rd = <<"LF">>
    /\ Kinds(out) = {"unsaved", "finished"}
    /\ InClock
    /\ calibrationFactor = Num(110)


\* C17: a calibration that measured Vrms = 0 and was given a reference
\* current > 0 is not aborted: the new factor, +inf, is printed as "inf",
\* the save prompt is shown, the live calibrationFactor becomes +inf
\* whatever the answer, and 'y'/'Y' writes +inf to the record.
C17_ZeroVrmsGoesOn ==
    [][/\ (EndOfLineStep /\ vrms = Num(0) /\ s # <<>> /\ s[1] = "2") =>
            /\ pc' = "cal_save"
            /\ newFactor' = PlusInf
            /\ out' = <<Line("new_factor", Text("inf", FALSE, 0, 0, 6)),
                        Say("save_prompt")>>
            /\ calibrationFactor' = calibrationFactor
            /\ nvs' = nvs
       /\ (AnswerStep /\ newFactor = PlusInf) =>
            /\ vrms = Num(0)
            /\ pc' = "idle"
            /\ calibrationFactor' = PlusInf
            /\ nvs' = (IF rd'[1] \in {"y", "Y"} THEN Stored(PlusInf) ELSE nvs)
      ]_vars

\* the infinite factor of a calibration with Vrms = 0 was saved
C17_Witness ==
    /\ pc = "idle"
    /\ rd = <<"y">>
    /\ "saved" \in Kinds(out)
    /\ calibrationFactor = PlusInf
    /\ nvs = Stored(PlusInf)


\* the queue is left alone or a byte is added at its end
Kept == rx' = rx \/ (Len(rx') = Len(rx) + 1 /\ SubSeq(rx', 1, Len(rx)) = rx)

\* C18: the reference-current text is made of the bytes read after the
\* discard at the first prompt, up to the first '\n', without the '\r'; a
\* byte that arrives during the measurement is not discarded, so a '\n'
\* arriving then ends the line with empty text and the calibration aborts
\* as invalid, calibrationFactor and the record unchanged.
C18_LineIsWhatFollowsDiscard ==
    [][/\ (pc = "cal_enter" /\ pc' # "boot") =>
            \/ pc' = "cal_enter" /\ Kept
            \/ pc' = "cal_busy" /\ rx # <<>> /\ rd' = rx /\ rx' = <<>>
       /\ (pc = "cal_busy" /\ pc' # "boot") =>
            /\ Kept
            /\ pc' \in {"cal_busy", "cal_line"}
            /\ pc' = "cal_line" => (rx' = rx /\ s' = <<>>)
       /\ (pc = "cal_line" /\ pc' # "boot") =>
            IF rd' = <<>> THEN Kept /\ s' = s /\ pc' = pc
            ELSE /\ rd' = <<Head(rx)>>
                 /\ rx' = Tail(rx)
                 /\ CASE rd'[1] = "CR" -> s' = s /\ pc' = pc
                      [] rd'[1] = "LF" ->
                           /\ pc' = (IF LeqZero(toFloat(s))
                                     THEN "idle" ELSE "cal_save")
                           /\ pc' = "cal_save" => s' = s
                      [] OTHER -> s' = Append(s, rd'[1]) /\ pc' = pc
       /\ (EndOfLineStep /\ s = <<>>) =>
            /\ pc' = "idle"
            /\ "invalid" \in Kinds(out')
            /\ calibrationFactor' = calibrationFactor
            /\ nvs' = nvs
      ]_vars

\* a '\n' that arrived during the measurement is still in the queue when
\* the reference current is asked for
C18_Witness ==
    /\ pc = "cal_line"
    /\ "ask_current" \in Kinds(out)
    /\ rx = <<"LF">>
    /\ s = <<>>


\* C19: the save prompt consumes exactly one byte; the bytes behind it stay
\* in the queue and are dispatched as IDLE commands in arrival order, one
\* per polling iteration, after the calibration has returned; a 'c', 'r',
\* 'd' or 'x' among them takes effect as a normal command.
C19_OneByteAnswers ==
    [][/\ AnswerStep =>
            /\ rd' = <<Head(rx)>>
            /\ rx' = Tail(rx)
            /\ pc' = "idle"
            /\ Kinds(out') \cap {"forced", "factor", "erased",
                                 "cal_banner"} = {}
            /\ rd'[1] \notin {"y", "Y"} => nvs' = nvs
       /\ (pc = "idle" /\ rd' # <<>>) =>
            /\ rd' = <<Head(rx)>>
            /\ rx' = Tail(rx)
            /\ out' # <<>> \/ rd'[1] \notin {"c", "r", "d", "x"}
            /\ CASE rd'[1] = "c" ->
                        pc' = "cal_enter" /\ out'[1].k = "cal_banner"
                 [] rd'[1] = "r" ->
                        /\ out'[1].k = "forced"
                        /\ Reports(out'[1].v, adc'[1], calibrationFactor, 6)
                 [] rd'[1] = "d" ->
                        out'[1] = Line("factor", printFloat(calibrationFactor, 6))
                 [] rd'[1] = "x" ->
                        out'[1].k = "erased" /\ ~nvs'.present
                 [] OTHER -> Kinds(out') \subseteq {"noise", "irms"}
      ]_vars

\* 'y' saved the factor; the 'x' typed behind it was then dispatched and
\* erased the record, and the 'd' behind that still waits
C19_Witness ==
    /\ pc = "idle"
    /\ rd = <<"x">>
    /\ rx = <<"d">>
    /\ "erased" \in Kinds(out)
    /\ ~nvs.present
    /\ ~hist.declined
    /\ calibrationFactor = Num(10)


\* C20: the elapsed-time check is right across the wrap of millis(): with
\* the real times of now and t0 on either side of the wrap, a polling
\* iteration takes the periodic measurement exactly when at least 2000 ms
\* have really passed since t0, and then restarts the timer at the real time
\* the measurement completed.
C20_RightAcrossWrap ==
    [][TailStep =>
         LET elapsed == CheckTime - Signed(t0)
         IN  /\ t0init
             /\ elapsed >= 0
             /\ PeriodicStep = (elapsed >= PERIOD_MS)
             /\ PeriodicStep =>
                   (t0' = now' /\ Signed(now') = CheckTime + MeasureMs)
             /\ ~PeriodicStep => t0' = t0]_vars

\* t0 was 1160 ms before the wrap; the iteration 840 ms after the wrap,
\* exactly 2000 ms later, took the periodic measurement, which ended one
\* measurement window later
C20_Witness ==
    /\ pc = "idle"
    /\ Len(adc) = 1
    /\ Kinds(out) \cap {"noise", "irms"} # {}
    /\ now = U32(MeasureMs - BeforeWrap + MeasureMs)
    /\ t0 = now

====
